---- MODULE Spec2Model ----
(***************************************************************************)
(* A model of src/src/index.ts: the Operation coordinator, the             *)
(* NamedWorker.run pull loop and the list-backed task provider.            *)
(*                                                                         *)
(* JavaScript runs one continuation at a time; every `await` is a          *)
(* suspension point.  One action of the model is the code that runs        *)
(* between two suspension points of one asynchronous flow.  The flows are  *)
(*   - one pull loop per registered worker (run -> distributeAction ->     *)
(*     getNextAction -> enqueueTasksIfNeeded -> startNewTask),             *)
(*   - one startPendingTasks call per task obtained from the provider,     *)
(*   - one enqueueTasksIfNeeded call per task completion handler,          *)
(*   - the task bodies and the runners, which are the caller's code.       *)
(* An await of an already settled promise whose continuation reads no      *)
(* shared state before the next suspension is folded into its neighbour.   *)
(***************************************************************************)
EXTENDS Integers, Sequences, FiniteSets, TLC

\* Bounds of the model.
MaxWorkers == 2
MaxTasks == 2
MaxActions == 2
MaxCeiling == 1
MaxSupply == 4

\* `undefined` task returned by the provider / a handle that is still pending.
NoTask == 0
Pending == 0

WorkerIds == 1..MaxWorkers
TaskIds == 1..(IF MaxSupply > MaxTasks THEN MaxSupply ELSE MaxTasks)

VARIABLES
  taskProvider,        \* TRUE while the field holds the provider, FALSE once null
  maxConcurrentTasks,  \* <<>> when undefined, <<n>> when configured
  workers,             \* sequence of registered worker ids
  pendingTasks,
  runningTasks,
  failedTasks,
  queuedActions,
  runningActions,
  notifyPromise,       \* TRUE while _notifyPromise/_notifyResolve are set
  finished,            \* _finishedPromise is resolved
  wpc,                 \* position of each worker's pull loop
  wact,                \* the action a worker's runner is executing
  wres,                \* last ActionDistributorResult a worker received
  wret,                \* what the worker's in-flight provider call will return
  hpc,                 \* position of the top-up started by a task's completion handler
  hret,                \* what that top-up's in-flight provider call will return
  spc,                 \* position of the startPendingTasks call made for a task
  tasks,               \* tasks left in the provider's list
  supplied,            \* number of tasks the provider has returned so far
  tstate,              \* state of each task body
  owner,               \* owner[a]: the task that submitted action a
  handle,              \* handle[a]: Pending, or the result it was resolved with
  failedActions,       \* actions whose runner failed
  exhausted,           \* a provider call has returned `undefined` to startNewTask
  lastReleased         \* number of waiters the most recent notifyAll call released

vars == <<taskProvider, maxConcurrentTasks, workers, pendingTasks, runningTasks,
          failedTasks, queuedActions, runningActions, notifyPromise, finished,
          wpc, wact, wres, wret, hpc, hret, spc, tasks, supplied, tstate,
          owner, handle, failedActions, exhausted, lastReleased>>

----------------------------------------------------------------------------
\* Pure helpers

\* Array.prototype.shift on a non-empty array: the removed head and the rest.
shiftLast(q) == [item |-> q[Len(q)], rest |-> SubSeq(q, 1, Len(q) - 1)]
shift(q) == [item |-> Head(q), rest |-> Tail(q)]

\* Array.prototype.push on pendingTasks.
unshift(s, t) == <<t>> \o s
push(s, t) == Append(s, t)

\* Array.prototype.indexOf, 1-based; 0 when t is absent (-1 in the code).
indexOf(s, t) ==
  IF \E i \in 1..Len(s) : s[i] = t
  THEN CHOOSE i \in 1..Len(s) : s[i] = t /\ \A j \in 1..(i - 1) : s[j] # t
  ELSE 0

\* splice(i, 1)
splice(s, i) == SubSeq(s, 1, i - 1) \o SubSeq(s, i + 1, Len(s))

\* const i = runningTasks.indexOf(task); if (i >= 0) runningTasks.splice(i, 1)
removeRunning(rt, t) == IF indexOf(rt, t) >= 1 THEN splice(rt, indexOf(rt, t)) ELSE rt

getMaxConcurrentTasksSnapshot(mc, ws) == IF mc # <<>> THEN mc[1] ELSE 3

getMaxConcurrentTasks(mc, ws) ==
  IF mc # <<>> THEN mc[1] ELSE Len(ws) * 3

\* runningTasks.length >= getMaxConcurrentTasks()
atCeilingOffByOne(rt, mc, ws) == Len(rt) > getMaxConcurrentTasks(mc, ws)
atCeiling(rt, mc, ws) == Len(rt) >= getMaxConcurrentTasks(mc, ws)

\* Loop condition of enqueueTasksIfNeeded.
needsTopUpAnyQueue(q, tp) == tp
needsTopUp(q, tp) == q = <<>> /\ tp

\* enqueueTasksIfNeeded reaches `this.taskProvider()` in startNewTask.
invokesProvider(q, tp, rt, mc, ws) ==
  /\ needsTopUp(q, tp)
  /\ ~atCeiling(rt, mc, ws)
  /\ tp

\* taskProvider after startNewTask received `task` from the provider.
providerKept(task, tp) == tp
providerAfter(task, tp) == IF task = NoTask THEN FALSE ELSE tp

\* What a runner that succeeds on action a returns (the concrete worker's
\* runAction is abstract; the action's input is its number, the result its double).
runAction(a) == a + a

\* distributeAction's then: action.callback(result) resolves the handle.
handleAfterSuccessFirst(h, a, r) == [h EXCEPT ![1] = r]
handleAfterSuccess(h, a, r) == [h EXCEPT ![a] = r]

\* distributeAction's catch: the handle is left alone.
handleAfterFailureSettles(h, a) == [h EXCEPT ![a] = a]
handleAfterFailure(h, a) == h

\* failedTasks after the catch handler of a task body.
failedNotRecorded(ft, t) == ft
failedAfter(ft, t) == Append(ft, t)

\* NamedWorker.run's loop condition on the result of distributeAction.
keepsRunningAlways(r) == TRUE
keepsRunning(r) == r # "no_more_actions"

\* _finishedPromise as the field initialiser leaves it: a promise nobody has
\* resolved yet.
finishedAtConstructionResolved == TRUE
finishedAtConstruction == FALSE

\* _finishedResolve() on a promise in state f: a promise settles once, a
\* second resolve changes nothing.
resolveFinishedToggles(f) == ~f
resolveFinished(f) == TRUE

\* _notifyPromise after notifyAll(): null, whether or not one was pending.
notifyPromiseKept(np) == np
notifyPromiseAfterNotify(np) == FALSE

\* notifyAll on the position of a flow blocked on _notifyPromise.
releasedNever(pc, np) == pc
released(pc, np) == IF np /\ pc = "blocked" THEN "woken" ELSE pc

----------------------------------------------------------------------------
\* The state after `new Operation(taskProviderFromList(list), maxConcurrentTasks?)`:
\* the list holds 0..MaxTasks tasks; the ceiling is left undefined or configured
\* to 1..MaxCeiling (with a ceiling of 0 no task is ever asked for).
Init ==
  /\ taskProvider = TRUE
  /\ maxConcurrentTasks \in {<<>>} \cup {<<n>> : n \in 1..MaxCeiling}
  /\ workers = <<>>
  /\ pendingTasks = <<>>
  /\ runningTasks = <<>>
  /\ failedTasks = <<>>
  /\ queuedActions = <<>>
  /\ runningActions = <<>>
  /\ notifyPromise = FALSE
  /\ finished = finishedAtConstruction
  /\ wpc = [w \in WorkerIds |-> "unregistered"]
  /\ wact = [w \in WorkerIds |-> 0]
  /\ wres = [w \in WorkerIds |-> "none"]
  /\ wret = [w \in WorkerIds |-> FALSE]
  /\ hpc = [t \in TaskIds |-> "none"]
  /\ hret = [t \in TaskIds |-> FALSE]
  /\ spc = [t \in TaskIds |-> "none"]
  /\ tasks \in 0..MaxTasks
  /\ supplied = 0
  /\ tstate = [t \in TaskIds |-> "unsupplied"]
  /\ owner = <<>>
  /\ handle = <<>>
  /\ failedActions = {}
  /\ exhausted = FALSE
  /\ lastReleased = 0

----------------------------------------------------------------------------
\* Building blocks shared by the flows

\* notifyAll(): resolve the pending promise and clear it.
notifyAll ==
  /\ wpc' = [w \in WorkerIds |-> released(wpc[w], notifyPromise)]
  /\ spc' = [t \in TaskIds |-> released(spc[t], notifyPromise)]
  /\ notifyPromise' = notifyPromiseAfterNotify(notifyPromise)
  /\ lastReleased' = Cardinality({w \in WorkerIds : wpc[w] = "blocked" /\ wpc'[w] = "woken"})
                     + Cardinality({t \in TaskIds : spc[t] = "blocked" /\ spc'[t] = "woken"})

\* taskProviderFromList: tasks.shift() happens when the provider is called.
callProvider == tasks > 0
tasksAfterCall == IF tasks > 0 THEN tasks - 1 ELSE 0

\* enqueueTasksIfNeeded, from the loop head to its first suspension, in a
\* worker's pull: rt, ws are the running tasks and workers at that moment.
enqueueTasksIfNeeded(w, rt, ws) ==
  IF invokesProvider(queuedActions, taskProvider, rt, maxConcurrentTasks, ws)
  THEN /\ wpc' = [wpc EXCEPT ![w] = "provider"]
       /\ wret' = [wret EXCEPT ![w] = callProvider]
       /\ tasks' = tasksAfterCall
  ELSE /\ wpc' = [wpc EXCEPT ![w] = "shift"]
       /\ UNCHANGED <<wret, tasks>>

\* The same, called from the completion handler of task t.
handlerEnqueueTasksIfNeeded(t, rt) ==
  IF invokesProvider(queuedActions, taskProvider, rt, maxConcurrentTasks, workers)
  THEN /\ hpc' = [hpc EXCEPT ![t] = "provider"]
       /\ hret' = [hret EXCEPT ![t] = callProvider]
       /\ tasks' = tasksAfterCall
  ELSE /\ hpc' = [hpc EXCEPT ![t] = "done"]
       /\ UNCHANGED <<hret, tasks>>

\* startPendingTasks, from the loop head to its first suspension or its end,
\* in the call made for task t; pt is pendingTasks at that moment.
startPendingTasks(t, pt) ==
  IF atCeiling(runningTasks, maxConcurrentTasks, workers)
  THEN \* await this.waitForNotify()
       /\ spc' = [spc EXCEPT ![t] = IF notifyPromise THEN "blocked" ELSE "woken"]
       /\ notifyPromise' = TRUE
       /\ pendingTasks' = pt
       /\ UNCHANGED <<runningTasks, tstate>>
  ELSE /\ spc' = [spc EXCEPT ![t] = "done"]
       /\ IF pt # <<>>
          THEN /\ pendingTasks' = shift(pt).rest
               /\ runningTasks' = Append(runningTasks, shift(pt).item)
               /\ tstate' = [tstate EXCEPT ![shift(pt).item] = "running"]
          ELSE /\ pendingTasks' = pt
               /\ UNCHANGED <<runningTasks, tstate>>
       /\ UNCHANGED notifyPromise

\* startNewTask after `await this.taskProvider()` returned: got is TRUE when
\* the provider returned a task.
startNewTaskReturn(got) ==
  /\ taskProvider' = providerAfter(IF got THEN supplied + 1 ELSE NoTask, taskProvider)
  /\ exhausted' = (exhausted \/ ~got)
  /\ IF got
     THEN /\ supplied' = supplied + 1
          /\ startPendingTasks(supplied + 1, push(pendingTasks, supplied + 1))
     ELSE UNCHANGED <<supplied, pendingTasks, runningTasks, tstate, spc, notifyPromise>>

\* getNextAction from `this.queuedActions.shift()` on: take the head, or wait
\* on the gate while tasks run, or report that there are no actions.
getNextAction(w) ==
  IF queuedActions # <<>>
  THEN /\ queuedActions' = shift(queuedActions).rest
       /\ runningActions' = Append(runningActions, shift(queuedActions).item)
       /\ wact' = [wact EXCEPT ![w] = shift(queuedActions).item]
       /\ wpc' = [wpc EXCEPT ![w] = "runner"]
       /\ UNCHANGED <<notifyPromise, finished, wres>>
  ELSE IF runningTasks # <<>>
  THEN /\ wpc' = [wpc EXCEPT ![w] = IF notifyPromise THEN "blocked" ELSE "woken"]
       /\ notifyPromise' = TRUE
       /\ UNCHANGED <<queuedActions, runningActions, wact, finished, wres>>
  ELSE /\ finished' = resolveFinished(finished)
       /\ wres' = [wres EXCEPT ![w] = "no_more_actions"]
       /\ wpc' = [wpc EXCEPT ![w] = IF keepsRunning("no_more_actions") THEN "loop" ELSE "stopped"]
       /\ UNCHANGED <<queuedActions, runningActions, wact, notifyPromise>>

----------------------------------------------------------------------------
\* Actions

\* registerWorker(worker): push the worker, start its run loop, which runs up
\* to the first suspension of enqueueTasksIfNeeded.
registerWorker ==
  /\ Len(workers) < MaxWorkers
  /\ LET w == Len(workers) + 1 IN
       /\ workers' = Append(workers, w)
       /\ enqueueTasksIfNeeded(w, runningTasks, Append(workers, w))
  /\ UNCHANGED <<taskProvider, maxConcurrentTasks, pendingTasks, runningTasks,
                 failedTasks, queuedActions, runningActions, notifyPromise,
                 finished, wact, wres, hpc, hret, spc, supplied, tstate,
                 owner, handle, failedActions, exhausted, lastReleased>>

\* NamedWorker.run: the loop condition held (the result is consumed by the
\* comparison), call distributeAction again.
run(w) ==
  /\ wpc[w] = "loop"
  /\ wres' = [wres EXCEPT ![w] = "none"]
  /\ enqueueTasksIfNeeded(w, runningTasks, workers)
  /\ UNCHANGED <<taskProvider, maxConcurrentTasks, workers, pendingTasks,
                 runningTasks, failedTasks, queuedActions, runningActions,
                 notifyPromise, finished, wact, hpc, hret, spc, supplied,
                 tstate, owner, handle, failedActions, exhausted, lastReleased>>

\* The provider call of a worker's startNewTask returns.
workerProviderReturn(w) ==
  /\ wpc[w] = "provider"
  /\ startNewTaskReturn(wret[w])
  /\ wpc' = [wpc EXCEPT ![w] = "topup"]
  /\ wret' = [wret EXCEPT ![w] = FALSE]
  /\ UNCHANGED <<maxConcurrentTasks, workers, failedTasks, queuedActions,
                 runningActions, finished, wact, wres, hpc, hret, tasks,
                 owner, handle, failedActions, lastReleased>>

\* enqueueTasksIfNeeded resumes after `await this.startNewTask()`.
workerTopUp(w) ==
  /\ wpc[w] = "topup"
  /\ enqueueTasksIfNeeded(w, runningTasks, workers)
  /\ UNCHANGED <<taskProvider, maxConcurrentTasks, workers, pendingTasks,
                 runningTasks, failedTasks, queuedActions, runningActions,
                 notifyPromise, finished, wact, wres, hpc, hret, spc, supplied,
                 tstate, owner, handle, failedActions, exhausted, lastReleased>>

\* getNextAction resumes after `await this.enqueueTasksIfNeeded()`.
workerShift(w) ==
  /\ wpc[w] = "shift"
  /\ getNextAction(w)
  /\ UNCHANGED <<taskProvider, maxConcurrentTasks, workers, pendingTasks,
                 runningTasks, failedTasks, wret, hpc, hret, spc, tasks,
                 supplied, tstate, owner, handle, failedActions, exhausted, lastReleased>>

\* getNextAction resumes after `await this.waitForNotify()`.
workerWake(w) ==
  /\ wpc[w] = "woken"
  /\ getNextAction(w)
  /\ UNCHANGED <<taskProvider, maxConcurrentTasks, workers, pendingTasks,
                 runningTasks, failedTasks, wret, hpc, hret, spc, tasks,
                 supplied, tstate, owner, handle, failedActions, exhausted, lastReleased>>

\* The runner of a worker returns; distributeAction's then/catch run.
runnerReturn(w, ok) ==
  /\ wpc[w] = "runner"
  /\ handle' = IF ok THEN handleAfterSuccess(handle, wact[w], runAction(wact[w]))
                     ELSE handleAfterFailure(handle, wact[w])
  /\ failedActions' = IF ok THEN failedActions ELSE failedActions \cup {wact[w]}
  /\ wres' = [wres EXCEPT ![w] = IF ok THEN "succeeded" ELSE "failed"]
  /\ wact' = [wact EXCEPT ![w] = 0]
  /\ wpc' = [wpc EXCEPT ![w] = IF keepsRunning(IF ok THEN "succeeded" ELSE "failed")
                                THEN "loop" ELSE "stopped"]
  /\ UNCHANGED <<taskProvider, maxConcurrentTasks, workers, pendingTasks,
                 runningTasks, failedTasks, queuedActions, runningActions,
                 notifyPromise, finished, wret, hpc, hret, spc, tasks,
                 supplied, tstate, owner, exhausted, lastReleased>>

\* startPendingTasks resumes after `await this.waitForNotify()`.
pendingWake(t) ==
  /\ spc[t] = "woken"
  /\ startPendingTasks(t, pendingTasks)
  /\ UNCHANGED <<taskProvider, maxConcurrentTasks, workers, failedTasks,
                 queuedActions, runningActions, finished, wpc, wact, wres,
                 wret, hpc, hret, tasks, supplied, owner, handle, failedActions, exhausted, lastReleased>>

\* A running task body calls performAction(action).
performAction(t) ==
  /\ tstate[t] = "running"
  /\ Len(owner) < MaxActions
  /\ owner' = Append(owner, t)
  /\ handle' = Append(handle, Pending)
  /\ queuedActions' = Append(queuedActions, Len(owner) + 1)
  /\ notifyAll
  /\ UNCHANGED <<taskProvider, maxConcurrentTasks, workers, pendingTasks,
                 runningTasks, failedTasks, runningActions, finished, wact,
                 wres, wret, hpc, hret, tasks, supplied, tstate, failedActions, exhausted>>

\* A task body settles; the then (ok) or catch (~ok) handler of
\* startPendingTasks runs.
taskSettles(t, ok) ==
  /\ tstate[t] = "running"
  /\ tstate' = [tstate EXCEPT ![t] = IF ok THEN "succeeded" ELSE "failed"]
  /\ failedTasks' = IF ok THEN failedTasks ELSE failedAfter(failedTasks, t)
  /\ runningTasks' = removeRunning(runningTasks, t)
  /\ notifyAll
  /\ handlerEnqueueTasksIfNeeded(t, removeRunning(runningTasks, t))
  /\ UNCHANGED <<taskProvider, maxConcurrentTasks, workers, pendingTasks,
                 queuedActions, runningActions, finished, wact, wres, wret,
                 supplied, owner, handle, failedActions, exhausted>>

\* The provider call of a completion handler's startNewTask returns.
handlerProviderReturn(t) ==
  /\ hpc[t] = "provider"
  /\ startNewTaskReturn(hret[t])
  /\ hpc' = [hpc EXCEPT ![t] = "topup"]
  /\ hret' = [hret EXCEPT ![t] = FALSE]
  /\ UNCHANGED <<maxConcurrentTasks, workers, failedTasks, queuedActions,
                 runningActions, finished, wpc, wact, wres, wret, tasks,
                 owner, handle, failedActions, lastReleased>>

\* The handler's enqueueTasksIfNeeded resumes after `await this.startNewTask()`.
handlerTopUp(t) ==
  /\ hpc[t] = "topup"
  /\ handlerEnqueueTasksIfNeeded(t, runningTasks)
  /\ UNCHANGED <<taskProvider, maxConcurrentTasks, workers, pendingTasks,
                 runningTasks, failedTasks, queuedActions, runningActions,
                 notifyPromise, finished, wpc, wact, wres, wret, spc, supplied,
                 tstate, owner, handle, failedActions, exhausted, lastReleased>>

Next ==
  \/ registerWorker
  \/ \E w \in WorkerIds : run(w)
  \/ \E w \in WorkerIds : workerProviderReturn(w)
  \/ \E w \in WorkerIds : workerTopUp(w)
  \/ \E w \in WorkerIds : workerShift(w)
  \/ \E w \in WorkerIds : workerWake(w)
  \/ \E w \in WorkerIds : \E ok \in BOOLEAN : runnerReturn(w, ok)
  \/ \E t \in TaskIds : pendingWake(t)
  \/ \E t \in TaskIds : performAction(t)
  \/ \E t \in TaskIds : \E ok \in BOOLEAN : taskSettles(t, ok)
  \/ \E t \in TaskIds : handlerProviderReturn(t)
  \/ \E t \in TaskIds : handlerTopUp(t)

Spec == Init /\ [][Next]_vars

----------------------------------------------------------------------------
\* The specification of the claims about the supply of tasks: a list of
\* MaxSupply tasks that settle without submitting an action (the case of the
\* comment at line 96, "new tasks won't immidiately request actions"), so that
\* more than three tasks run at once and several tasks wait in pendingTasks.

SupplyInit ==
  /\ taskProvider = TRUE
  /\ maxConcurrentTasks \in {<<>>} \cup {<<n>> : n \in 1..MaxCeiling}
  /\ workers = <<>>
  /\ pendingTasks = <<>>
  /\ runningTasks = <<>>
  /\ failedTasks = <<>>
  /\ queuedActions = <<>>
  /\ runningActions = <<>>
  /\ notifyPromise = FALSE
  /\ finished = finishedAtConstruction
  /\ wpc = [w \in WorkerIds |-> "unregistered"]
  /\ wact = [w \in WorkerIds |-> 0]
  /\ wres = [w \in WorkerIds |-> "none"]
  /\ wret = [w \in WorkerIds |-> FALSE]
  /\ hpc = [t \in TaskIds |-> "none"]
  /\ hret = [t \in TaskIds |-> FALSE]
  /\ spc = [t \in TaskIds |-> "none"]
  /\ tasks = MaxSupply
  /\ supplied = 0
  /\ tstate = [t \in TaskIds |-> "unsupplied"]
  /\ owner = <<>>
  /\ handle = <<>>
  /\ failedActions = {}
  /\ exhausted = FALSE
  /\ lastReleased = 0

SupplyNext ==
  \/ registerWorker
  \/ \E w \in WorkerIds : workerProviderReturn(w)
  \/ \E w \in WorkerIds : workerTopUp(w)
  \/ \E w \in WorkerIds : workerShift(w)
  \/ \E w \in WorkerIds : workerWake(w)
  \/ \E t \in TaskIds : pendingWake(t)
  \/ \E t \in TaskIds : \E ok \in BOOLEAN : taskSettles(t, ok)
  \/ \E t \in TaskIds : handlerProviderReturn(t)
  \/ \E t \in TaskIds : handlerTopUp(t)

SupplySpec == SupplyInit /\ [][SupplyNext]_vars

----------------------------------------------------------------------------
\* The specification of the liveness claim: runners succeed, and every flow
\* of the coordinator, every provider call, every runner and every task body
\* whose submitted actions are resolved eventually takes its next step.

Range(s) == {s[i] : i \in 1..Len(s)}

handlesResolved(t) ==
  \A a \in 1..Len(owner) : owner[a] = t => handle[a] # Pending

taskReturns(t) == \E ok \in BOOLEAN : taskSettles(t, ok) /\ handlesResolved(t)

NextLive ==
  \/ registerWorker
  \/ \E w \in WorkerIds : run(w)
  \/ \E w \in WorkerIds : workerProviderReturn(w)
  \/ \E w \in WorkerIds : workerTopUp(w)
  \/ \E w \in WorkerIds : workerShift(w)
  \/ \E w \in WorkerIds : workerWake(w)
  \/ \E w \in WorkerIds : runnerReturn(w, TRUE)
  \/ \E t \in TaskIds : pendingWake(t)
  \/ \E t \in TaskIds : performAction(t)
  \/ \E t \in TaskIds : \E ok \in BOOLEAN : taskSettles(t, ok)
  \/ \E t \in TaskIds : handlerProviderReturn(t)
  \/ \E t \in TaskIds : handlerTopUp(t)

Fairness ==
  /\ \A w \in WorkerIds :
       /\ WF_vars(run(w))
       /\ WF_vars(workerProviderReturn(w))
       /\ WF_vars(workerTopUp(w))
       /\ WF_vars(workerShift(w))
       /\ WF_vars(workerWake(w))
       /\ WF_vars(runnerReturn(w, TRUE))
  /\ \A t \in TaskIds :
       /\ WF_vars(pendingWake(t))
       /\ WF_vars(taskReturns(t))
       /\ WF_vars(handlerProviderReturn(t))
       /\ WF_vars(handlerTopUp(t))

LiveSpec == Init /\ [][NextLive]_vars /\ Fairness

----------------------------------------------------------------------------
\* Claims

ceiling == getMaxConcurrentTasks(maxConcurrentTasks, workers)

\* A provider call begins in this step: in a worker's pull, in a handler's top-up.
workerInvokes == \E w \in WorkerIds : wpc'[w] = "provider" /\ wpc[w] # "provider"
handlerInvokes == \E t \in TaskIds : hpc'[t] = "provider" /\ hpc[t] # "provider"

\* C1: in every reachable state the number of running tasks is at most the
\* ceiling in force (maxConcurrentTasks, or 3 x the registered workers).
C1_RunningWithinCeiling == Len(runningTasks) <= ceiling

\* The ceiling binds: it is reached and a task waits in pendingTasks for a slot.
C1_Witness ==
  /\ ceiling > 0
  /\ Len(runningTasks) = ceiling
  /\ pendingTasks # <<>>

\* C2: whenever getNextAction calls _finishedResolve, the provider is null,
\* no task is running and no action is queued.
C2_FinishOnlyWhenTerminal ==
  [][(\E w \in WorkerIds : wpc'[w] = "stopped" /\ wpc[w] # "stopped")
       => (~taskProvider /\ runningTasks = <<>> /\ queuedActions = <<>>)]_vars

\* C3: actions are dequeued in the order they were submitted: the k-th action
\* handed to a worker (runningActions records every dequeue, in order) is the
\* k-th action submitted through performAction, and what is still queued is in
\* submission order.
C3_GlobalFifo ==
  /\ \A i \in 1..Len(runningActions) : runningActions[i] = i
  /\ \A i \in 1..Len(queuedActions) : queuedActions[i] = Len(runningActions) + i

\* Two actions of two different tasks have both been dequeued.
C3_Witness ==
  /\ Len(runningActions) >= 2
  /\ owner[runningActions[1]] # owner[runningActions[2]]

\* C4: once a provider call has returned the exhaustion signal to
\* startNewTask, no step begins another provider call.
C4_NoCallAfterExhaustion ==
  [][exhausted => ~(workerInvokes \/ handlerInvokes)]_vars

\* After exhaustion a worker that already ran an action and a completion
\* handler have both evaluated the top-up with an empty queue and a free slot.
C4_Witness ==
  /\ exhausted
  /\ queuedActions = <<>>
  /\ Len(runningTasks) < ceiling
  /\ runningActions # <<>>
  /\ \E w \in WorkerIds : wpc[w] = "shift"
  /\ \E t \in TaskIds : hpc[t] = "done"

\* C5: a provider call begins only with the queue empty and the number of
\* running tasks strictly below the ceiling, at the moment of the call (the
\* call is the last thing its step does), from a worker and from a handler.
C5_CallOnlyWhenIdleBelowCeiling ==
  [][(workerInvokes \/ handlerInvokes)
       => /\ queuedActions' = <<>>
          /\ Len(runningTasks') < getMaxConcurrentTasks(maxConcurrentTasks', workers')]_vars

\* A worker's call and a completion handler's call are in flight together.
C5_Witness ==
  /\ \E w \in WorkerIds : wpc[w] = "provider"
  /\ \E t \in TaskIds : hpc[t] = "provider"

\* C6: after some worker received 'no_more_actions', no task is started and
\* performAction enqueues nothing.
C6_ExhaustionPermanent ==
  [][(\E w \in WorkerIds : wres[w] = "no_more_actions")
       => /\ Len(owner') = Len(owner)
          /\ \A t \in TaskIds : tstate'[t] = "running" => tstate[t] = "running"]_vars

\* C7: the in-flight registry holds exactly the actions whose runner has not
\* returned yet, so it is empty once every runner has returned.
C7_InFlightRegistry ==
  Range(runningActions) = {wact[w] : w \in {v \in WorkerIds : wpc[v] = "runner"}}

\* C8: when a runner fails on an action the worker receives 'failed', and the
\* handle of that action stays pending in every later state.
C8_FailedActionHangs ==
  [][/\ \A a \in failedActions' : handle'[a] = Pending
     /\ \A w \in WorkerIds :
          (wpc[w] = "runner" /\ wact[w] \in failedActions' \ failedActions)
            => wres'[w] = "failed"]_vars

\* A runner failed, its worker was told 'failed', the operation has finished
\* and the handle is still pending.
C8_Witness ==
  /\ finished
  /\ \E a \in failedActions : handle[a] = Pending /\ tstate[owner[a]] = "succeeded"
  /\ \E w \in WorkerIds : wres[w] = "no_more_actions"

\* C9: the step in which a task body fails puts the task in failedTasks, takes
\* it out of runningTasks, leaves nobody blocked on the gate and runs the
\* top-up; a failed task stays failed and is never pending or running again.
C9_TaskFailure ==
  [][\A t \in TaskIds :
       /\ (tstate[t] = "running" /\ tstate'[t] = "failed")
            => /\ t \in Range(failedTasks')
               /\ t \notin Range(runningTasks')
               /\ Len(runningTasks') = Len(runningTasks) - 1
               /\ ~notifyPromise'
               /\ \A w \in WorkerIds : wpc'[w] # "blocked"
               /\ \A u \in TaskIds : spc'[u] # "blocked"
               /\ hpc[t] = "none" /\ hpc'[t] # "none"
       /\ tstate[t] = "failed"
            => /\ tstate'[t] = "failed"
               /\ t \in Range(failedTasks')
               /\ t \notin Range(pendingTasks') \cup Range(runningTasks')]_vars

\* With a ceiling of one, a task failed and the next task runs in its slot.
C9_Witness ==
  /\ maxConcurrentTasks = <<1>>
  /\ \E t \in TaskIds : \E u \in TaskIds :
       /\ tstate[t] = "failed"
       /\ t \in Range(failedTasks)
       /\ tstate[u] = "running"

\* C10: once a worker is registered the completion signal eventually fires,
\* when runners succeed and task bodies settle once their actions are resolved.
C10_EventuallyFinished == (workers # <<>>) ~> finished

\* The operation finished although a task failed.
C10_Witness ==
  /\ finished
  /\ failedTasks # <<>>
  /\ supplied = MaxTasks

\* C11: the completion signal is irreversible and fires once: a step never
\* takes the operation from finished to unfinished, and after every call of
\* _finishedResolve (a worker stops) the operation is finished, however many
\* workers make the call.
C11_FinishedOnceForAll ==
  [][/\ finished => finished'
     /\ (\E w \in WorkerIds : wpc'[w] = "stopped") => finished']_vars

\* Two workers have each called _finishedResolve.
C11_Witness ==
  /\ finished
  /\ Cardinality({w \in WorkerIds : wpc[w] = "stopped"}) >= 2

\* C12: while no worker is registered the operation is pending and the
\* provider has not been called, whatever the list holds.
C12_NoWorkerNoFinish ==
  (workers = <<>> /\ tasks > 0)
    => /\ ~finished
       /\ taskProvider /\ ~exhausted
       /\ supplied = 0
       /\ pendingTasks = <<>> /\ runningTasks = <<>>
       /\ \A t \in TaskIds : hpc[t] = "none" /\ spc[t] = "none" /\ tstate[t] = "unsupplied"
       /\ \A w \in WorkerIds : wpc[w] = "unregistered"

\* No worker is registered and the list holds tasks.
C12_Witness == workers = <<>> /\ tasks = MaxTasks /\ ~finished

\* A step in which a worker's getNextAction, or the startPendingTasks call made
\* for task t, reaches `await this.waitForNotify()`.
workerWaitBegins(w) ==
  /\ workerShift(w) \/ workerWake(w)
  /\ wpc'[w] \in {"woken", "blocked"}

pendingWaitBegins(t) ==
  /\ \/ spc[t] = "none"
     \/ pendingWake(t)
  /\ spc'[t] \in {"woken", "blocked"}

\* C13: a flow that reaches `await waitForNotify()` stays suspended until a
\* later notifyAll: the step that begins the wait leaves the flow blocked, also
\* when it installs the promise of a new epoch, and a blocked flow is released
\* only by a step that calls notifyAll on the installed promise.
C13_WaitBlocksUntilNotify ==
  [][/\ \A w \in WorkerIds :
          /\ workerWaitBegins(w) => wpc'[w] = "blocked"
          /\ (wpc[w] = "blocked" /\ wpc'[w] # "blocked")
               => (wpc'[w] = "woken" /\ notifyPromise /\ ~notifyPromise')
     /\ \A t \in TaskIds :
          /\ pendingWaitBegins(t) => spc'[t] = "blocked"
          /\ (spc[t] = "blocked" /\ spc'[t] # "blocked")
               => (spc'[t] = "woken" /\ notifyPromise /\ ~notifyPromise')]_vars

\* A step that calls notifyAll(): performAction, or a task's then/catch handler.
notifyAllCalled ==
  \E t \in TaskIds : performAction(t) \/ \E ok \in BOOLEAN : taskSettles(t, ok)

\* C14: every flow blocked on the gate waits on the installed promise; a step
\* that calls notifyAll turns every blocked flow into a resumable one, leaves
\* nobody blocked and leaves the promise cleared, and a wait that begins with
\* the promise cleared installs a new one.
C14_NotifyReleasesAll ==
  [][/\ ((\E w \in WorkerIds : wpc[w] = "blocked") \/ (\E t \in TaskIds : spc[t] = "blocked"))
          => notifyPromise
     /\ notifyAllCalled
          => /\ ~notifyPromise'
             /\ \A w \in WorkerIds : wpc[w] = "blocked" => wpc'[w] = "woken"
             /\ \A t \in TaskIds : spc[t] = "blocked" => spc'[t] = "woken"
             /\ \A w \in WorkerIds : wpc'[w] # "blocked"
             /\ \A t \in TaskIds : spc'[t] # "blocked"
     /\ \A w \in WorkerIds : workerWaitBegins(w) => notifyPromise'
     /\ \A t \in TaskIds : pendingWaitBegins(t) => notifyPromise']_vars

\* The most recent notifyAll released two waiters at once, one of them a
\* pending task's startPendingTasks, and the promise is cleared.
C14_Witness ==
  /\ lastReleased >= 2
  /\ ~notifyPromise
  /\ \E w \in WorkerIds : wpc[w] = "woken"
  /\ \E t \in TaskIds : spc[t] = "woken"

\* C15: an action is dequeued at most once and runs on at most one worker, a
\* queued action has not been dequeued, a resolved handle holds the result of
\* the runner of its own action, and the step in which a runner succeeds on an
\* action resolves the handle of that action with the runner's result and
\* touches no other handle.
C15_OnceAndOwnHandle ==
  [][/\ \A i \in 1..Len(runningActions) : \A j \in 1..Len(runningActions) :
          runningActions[i] = runningActions[j] => i = j
     /\ Range(queuedActions) \cap Range(runningActions) = {}
     /\ \A w \in WorkerIds : wpc[w] = "runner" =>
          /\ wact[w] \in Range(runningActions)
          /\ \A v \in WorkerIds : (wpc[v] = "runner" /\ wact[v] = wact[w]) => v = w
     /\ \A a \in 1..Len(handle) : handle[a] # Pending =>
          /\ handle[a] = runAction(a)
          /\ a \in Range(runningActions)
     /\ \A w \in WorkerIds : (wpc[w] = "runner" /\ wres'[w] = "succeeded") =>
          /\ handle'[wact[w]] = runAction(wact[w])
          /\ \A a \in 1..Len(handle) : a # wact[w] => handle'[a] = handle[a]]_vars

\* Two actions of two different tasks are both resolved, each with the double
\* of its own input.
C15_Witness ==
  /\ Len(handle) >= 2
  /\ handle[1] = runAction(1)
  /\ handle[2] = runAction(2)
  /\ owner[1] # owner[2]

\* C16: a worker is at the head of run's loop only after 'succeeded' or
\* 'failed', and there its next step, always possible, is a new call of
\* distributeAction; a worker that receives 'no_more_actions' stops in that
\* step and a stopped worker never moves again.
C16_LoopUntilNoMoreActions ==
  [][\A w \in WorkerIds :
       /\ (wpc[w] = "runner" /\ wpc'[w] # "runner")
            => (wres'[w] \in {"succeeded", "failed"} /\ wpc'[w] = "loop")
       /\ wpc[w] = "loop"
            => /\ wres[w] \in {"succeeded", "failed"}
               /\ ENABLED run(w)
               /\ wpc'[w] \in {"loop", "provider", "shift"}
       /\ wres'[w] = "no_more_actions" => wpc'[w] = "stopped"
       /\ wpc[w] = "stopped"
            => /\ wres[w] = "no_more_actions"
               /\ wpc'[w] = "stopped"
               /\ wres'[w] = "no_more_actions"
               /\ wact'[w] = wact[w]]_vars

\* The only worker looped after a failed and after a successful runner, then
\* received 'no_more_actions' and stopped.
C16_Witness ==
  /\ Len(workers) = 1
  /\ wpc[1] = "stopped"
  /\ failedActions # {}
  /\ \E a \in 1..Len(handle) : handle[a] # Pending

\* The top-up of worker w, or of the completion handler of task t, evaluates
\* the condition of enqueueTasksIfNeeded in this step.
workerChecksCeiling(w) ==
  /\ wpc[w] \in {"unregistered", "loop", "topup"}
  /\ wpc'[w] \in {"provider", "shift"}

handlerChecksCeiling(t) ==
  /\ hpc[t] \in {"none", "topup"}
  /\ hpc'[t] \in {"provider", "done"}

\* The startPendingTasks call made for task t evaluates its loop condition.
pendingChecksCeiling(t) ==
  \/ spc[t] = "none" /\ spc'[t] # "none"
  \/ pendingWake(t)

\* C17: every ceiling check compares the running tasks with 3 x the number of
\* workers registered at that moment when no ceiling is configured, and with
\* the configured ceiling otherwise: a top-up calls the provider exactly when
\* the queue is empty, the provider is set and the running tasks are below that
\* number, and startPendingTasks goes on exactly when they are below it; the
\* configuration never changes.
C17_LiveCeiling ==
  [][LET live == IF maxConcurrentTasks = <<>> THEN 3 * Len(workers') ELSE maxConcurrentTasks[1]
         idle == queuedActions' = <<>> /\ taskProvider
     IN /\ maxConcurrentTasks' = maxConcurrentTasks
        /\ Len(runningTasks') <= live
        /\ \A w \in WorkerIds : workerChecksCeiling(w) =>
             (wpc'[w] = "provider" <=> (idle /\ Len(runningTasks') < live))
        /\ \A t \in TaskIds : handlerChecksCeiling(t) =>
             (hpc'[t] = "provider" <=> (idle /\ Len(runningTasks') < live))
        /\ \A t \in TaskIds : pendingChecksCeiling(t) =>
             (spc'[t] = "done" <=> Len(runningTasks) < live)]_vars

\* With no configured ceiling and two workers, more than three tasks run.
C17_Witness ==
  /\ maxConcurrentTasks = <<>>
  /\ Len(workers) = 2
  /\ Len(runningTasks) > 3 * (Len(workers) - 1)

\* C18: once a worker is registered, every submitted action is eventually
\* dequeued by a worker and its runner returns, when runners return and every
\* continuation eventually runs.
C18_EveryActionExecuted ==
  \A a \in 1..MaxActions :
    (workers # <<>> /\ a \in Range(queuedActions))
      ~> (a \in Range(runningActions) /\ handle[a] # Pending)

\* The tasks the provider has returned so far.
suppliedTasks == 1..supplied

\* C19: every task the provider returned is in exactly one place: waiting in
\* pendingTasks (not started yet) with a startPendingTasks call suspended on
\* the gate for each waiting task, or started.  A task is started once, from
\* the pending list, and only while the running tasks are below the ceiling.
\* When the completion signal fires no task waits in pendingTasks.
C19_CooperativeBackpressure ==
  [][/\ Range(pendingTasks) \cup Range(runningTasks) \subseteq suppliedTasks
     /\ \A t \in suppliedTasks :
          /\ (t \in Range(pendingTasks)) <=> (tstate[t] = "unsupplied")
          /\ (t \in Range(runningTasks)) <=> (tstate[t] = "running")
     /\ \A i \in 1..Len(pendingTasks) : \A j \in 1..Len(pendingTasks) :
          pendingTasks[i] = pendingTasks[j] => i = j
     /\ \A i \in 1..Len(runningTasks) : \A j \in 1..Len(runningTasks) :
          runningTasks[i] = runningTasks[j] => i = j
     /\ Len(pendingTasks) <= Cardinality({t \in TaskIds : spc[t] \in {"woken", "blocked"}})
     /\ \A t \in TaskIds :
          (tstate'[t] = "running" /\ tstate[t] # "running")
            => /\ tstate[t] = "unsupplied"
               /\ t \in Range(pendingTasks') \cup Range(pendingTasks) \cup {supplied'}
               /\ t \notin Range(pendingTasks')
               /\ Len(runningTasks) < ceiling
     /\ (finished' /\ ~finished) => pendingTasks' = <<>>]_vars

\* C20: tasks enter runningTasks in the order the provider returned them (task
\* ids number the provider's returns): the started tasks are the first returns,
\* the pending list holds the remaining returns in their order, and a task
\* starts only after every task returned before it has started.
C20_StartedInSupplyOrder ==
  [][/\ \A t \in suppliedTasks : \A u \in suppliedTasks :
          (u < t /\ tstate[t] # "unsupplied") => tstate[u] # "unsupplied"
     /\ \A i \in 1..Len(pendingTasks) :
          pendingTasks[i] = supplied - Len(pendingTasks) + i
     /\ \A t \in TaskIds :
          (tstate'[t] = "running" /\ tstate[t] # "running")
            => \A u \in 1..(t - 1) : tstate[u] # "unsupplied"]_vars

\* With a ceiling of one, three provider calls were in flight at once: the
\* second task runs while the third and the fourth wait, in order, for its slot.
C20_Witness ==
  /\ maxConcurrentTasks = <<1>>
  /\ tstate[2] = "running"
  /\ Len(pendingTasks) >= 2
  /\ pendingTasks[1] = 3
  /\ pendingTasks[2] = 4

====
